---- MODULE Spec2Model ----
(***************************************************************************)
(* Webhook gateway (src/server.ts): the in-memory queue, the retry logic   *)
(* of processQueue and the bounded history of processed events, driven by  *)
(* the HTTP routes POST /webhook, GET /queue-status, GET /health and       *)
(* GET /generate-test-token.                                               *)
(*                                                                         *)
(* The server runs on one JavaScript thread: a route handler runs to       *)
(* completion before the next request is served.  A POST /webhook is       *)
(* modelled as the step that validates, pushes and enters processQueue,    *)
(* followed by one step per index of the forEach loop and by the step      *)
(* that returns the response; while pc = "pass" no other request is        *)
(* served.                                                                 *)
(*                                                                         *)
(* The delivery of an item is the seam at src/server.ts:156-157 ("replace  *)
(* with actual webhook forwarding logic"): it is an input of the model,    *)
(* "ok" (the try block runs to its end) or "fail" (it throws before the    *)
(* history is written, so the catch block runs).  As written the code      *)
(* never throws there; SpecRef is that behaviour.                          *)
(***************************************************************************)
EXTENDS Integers, Sequences, FiniteSets, TLC

\* ------------------------------------------------------------------------
\* Program constants
\* ------------------------------------------------------------------------
MAX_RETRIES == 3

HISTORY_LIMIT == 20

\* expiresIn: "1h", in seconds
HourSeconds == 3600

\* Date.now() counts milliseconds
MsPerSecond == 1000

\* ------------------------------------------------------------------------
\* Bounds of the model
\* ------------------------------------------------------------------------
\* webhooks admitted in a run of Spec and SpecRef
MaxAdmit == 4

\* webhooks admitted in a run of SpecLong
MaxAdmitLong == 25

\* failed delivery attempts in a run of SpecLong
MaxFailLong == 3

\* webhooks admitted and failed delivery attempts in a run of SpecBacklog
MaxAdmitBacklog == 8

MaxFailBacklog == 8

\* requests received and waiting for their handler in SpecConc
MaxInflight == 3

\* webhooks admitted in a run of SpecConc
MaxAdmitConc == 4

\* webhooks admitted in a run of SpecToken
MaxAdmitToken == 2

\* the clock of SpecToken: it starts at StartTime seconds and advances
\* MaxTicks times by TickSeconds
StartTime == 1000

TickSeconds == 1800

MaxTicks == 5

\* ------------------------------------------------------------------------
\* Inputs
\* ------------------------------------------------------------------------
Events == {"user.created", "order.completed"}

LongEvents == {"user.created"}

\* the x-signature header: absent, empty, or a token
NoHeader == "<absent>"

Headers == {NoHeader, "", "valid", "garbage"}

\* request bodies: event is a string of Events, or not a string, or absent;
\* data is present or absent
NotAString == "<number>"

Missing == "<missing>"

Bodies ==
    [event : Events, hasData : BOOLEAN]
        \cup {[event |-> NotAString, hasData |-> TRUE],
              [event |-> Missing, hasData |-> TRUE]}

\* ------------------------------------------------------------------------
\* State
\* ------------------------------------------------------------------------
VARIABLES
    queue,            \* const queue: WebhookQueueItem[]
    processedEvents,  \* const processedEvents: ProcessedEvent[]
    pc,               \* "idle": no handler runs; "pass": inside processQueue
    index,            \* forEach: the index k of the next visit (0-based)
    len,              \* forEach: the length read when the loop started
    request,          \* the request being (or last) served
    response,         \* the response to request; NoResponse while it is served
    nextId,           \* history variable: webhooks admitted so far
    recorded,         \* history variable: every outcome written, oldest first
    attempts,         \* history variable: id -> delivery attempts [ok, fail]
    due,              \* history variable: id -> Phi of the item when admitted
    passStart,        \* history variable: the queue when the pass started
    visited,          \* history variable: ids attempted in this pass, in order
    inflight,         \* requests received whose handler has not started
    now,              \* the clock, in seconds
    token,            \* the token GET /generate-test-token returned last
    presented         \* history variable: the last presentation of token

vars == <<queue, processedEvents, pc, index, len, request, response,
          nextId, recorded, attempts, due, passStart, visited,
          inflight, now, token, presented>>

\* the requests in flight and the clock: POST /webhook states nothing about
\* them, the specifications say how a request reaches its handler
aux == <<inflight, now, token, presented>>

\* ------------------------------------------------------------------------
\* Array primitives
\* ------------------------------------------------------------------------
\* Array.prototype.unshift(e)
Unshift(s, e) == <<e>> \o s

\* Array.prototype.pop()
Pop(s) == SubSeq(s, 1, Len(s) - 1)

\* mutant: unshift instead of push, the element is put at the front
Push_Front(s, e) == <<e>> \o s

\* Array.prototype.push(e)
Push(s, e) == Append(s, e)

\* mutant: the index taken as 1-based, so the element before i is removed
Splice_OneBased(s, i) == SubSeq(s, 1, i - 1) \o SubSeq(s, i + 1, Len(s))

\* mutant: splice(i + 1, 1), the element after i is removed
Splice_Next(s, i) == SubSeq(s, 1, i + 1) \o SubSeq(s, i + 3, Len(s))

\* Array.prototype.splice(i, 1), i a 0-based index
Splice(s, i) == SubSeq(s, 1, i) \o SubSeq(s, i + 2, Len(s))

\* mutant: slice(-n), the last n elements
Slice_Last(s, n) == SubSeq(s, IF Len(s) < n THEN 1 ELSE Len(s) - n + 1, Len(s))

\* Array.prototype.slice(0, n)
Slice(s, n) == SubSeq(s, 1, IF Len(s) < n THEN Len(s) ELSE n)

\* s[i], i a 0-based index
At(s, i) == s[i + 1]


\* ------------------------------------------------------------------------
\* Records
\* ------------------------------------------------------------------------
\* a WebhookQueueItem; id stands for the identity of the object (the model
\* leaves out addedAt and payload.data, which the code never reads)
Item(id, event) == [id |-> id, event |-> event, retries |-> 0]

\* a ProcessedEvent written for an item; id is a history field naming the
\* item it was written for (the model leaves out timestamp)
Entry(item, status) == [id |-> item.id, event |-> item.event, status |-> status]

\* ------------------------------------------------------------------------
\* validateSignature and the route's checks
\* ------------------------------------------------------------------------
\* jwt.verify(signature, SECRET) does not throw
jwtVerify(signature) == signature = "valid"

\* mutant: a signature is accepted as soon as it is not empty
validateSignature_NoVerify(signature) == signature # ""

validateSignature(signature) ==
    IF signature = "" THEN FALSE ELSE jwtVerify(signature)

\* const signature = headers["x-signature"] ?? ""
SignatureOf(header) == IF header = NoHeader THEN "" ELSE header

\* body: t.Object({ event: t.String(), data: t.Any() })
BodyValid(body) == body.event \in Events /\ body.hasData

\* mutant: the signature is checked before the schema
WebhookRoute_SignatureFirst(header, body) ==
    IF ~validateSignature(SignatureOf(header)) THEN "unauthorized"
    ELSE IF ~BodyValid(body) THEN "invalid"
    ELSE "admit"

\* what POST /webhook does with a request: the schema is checked by the
\* framework before the handler runs, the signature by the handler
WebhookRoute(header, body) ==
    IF ~BodyValid(body) THEN "invalid"
    ELSE IF ~validateSignature(SignatureOf(header)) THEN "unauthorized"
    ELSE "admit"

\* ------------------------------------------------------------------------
\* processQueue: the body of the forEach callback
\* ------------------------------------------------------------------------
\* mutant: the cap compared with >= instead of >
RecordSuccess_CapOffByOne(h, item) ==
    LET h1 == Unshift(h, Entry(item, "success"))
    IN  IF Len(h1) >= HISTORY_LIMIT THEN Pop(h1) ELSE h1

\* processedEvents.unshift({... status: "success" ...});
\* if (processedEvents.length > 20) processedEvents.pop()
RecordSuccess(h, item) ==
    LET h1 == Unshift(h, Entry(item, "success"))
    IN  IF Len(h1) > HISTORY_LIMIT THEN Pop(h1) ELSE h1

\* processedEvents.unshift({... status: "failed" ...})
RecordFailed(h, item) == Unshift(h, Entry(item, "failed"))

\* mutant: the threshold compared with > instead of >=
ShouldDrop_Strict(retries) == retries > MAX_RETRIES

\* if (item.retries >= MAX_RETRIES)
ShouldDrop(retries) == retries >= MAX_RETRIES

\* mutant: the try block without its queue.splice(index, 1)
TryBlock_NoSplice(q, h, i) ==
    [queue |-> q, processedEvents |-> RecordSuccess(h, At(q, i))]

\* the try block ran to its end for the item at index i
TryBlock(q, h, i) ==
    [queue |-> Splice(q, i), processedEvents |-> RecordSuccess(h, At(q, i))]

\* mutant: a failed item that stays is moved to the tail of the queue
CatchBlock_Requeue(q, h, i) ==
    LET q1 == [q EXCEPT ![i + 1].retries = @ + 1]
    IN  IF ShouldDrop(At(q1, i).retries)
        THEN [queue |-> Splice(q1, i),
              processedEvents |-> RecordFailed(h, At(q1, i))]
        ELSE [queue |-> Push(Splice(q1, i), At(q1, i)), processedEvents |-> h]

\* mutant: a failed delivery counts against every queued item
CatchBlock_CountsAll(q, h, i) ==
    LET q1 == [k \in 1..Len(q) |-> [q[k] EXCEPT !.retries = @ + 1]]
    IN  IF ShouldDrop(At(q1, i).retries)
        THEN [queue |-> Splice(q1, i),
              processedEvents |-> RecordFailed(h, At(q1, i))]
        ELSE [queue |-> q1, processedEvents |-> h]

\* the delivery threw: the catch block for the item at index i
CatchBlock(q, h, i) ==
    LET q1 == [q EXCEPT ![i + 1].retries = @ + 1]
    IN  IF ShouldDrop(At(q1, i).retries)
        THEN [queue |-> Splice(q1, i),
              processedEvents |-> RecordFailed(h, At(q1, i))]
        ELSE [queue |-> q1, processedEvents |-> h]

\* queue.forEach(callback) from index k on, n the length read at the start;
\* results[k + 1] is the result of the delivery made at index k
RECURSIVE forEach(_, _, _, _, _)
forEach(q, h, k, n, results) ==
    IF k >= n THEN [queue |-> q, processedEvents |-> h]
    ELSE IF k >= Len(q) THEN forEach(q, h, k + 1, n, results)
    ELSE LET r == IF results[k + 1] = "ok" THEN TryBlock(q, h, k)
                  ELSE CatchBlock(q, h, k)
         IN  forEach(r.queue, r.processedEvents, k + 1, n, results)

\* one call of processQueue() on queue q and history h
processQueue(q, h, results) == forEach(q, h, 0, Len(q), results)

\* ------------------------------------------------------------------------
\* Requests and responses
\* ------------------------------------------------------------------------
NoBody == [event |-> Missing, hasData |-> FALSE]

NoRequest == [route |-> "none", header |-> NoHeader, body |-> NoBody]

NoResponse == [route |-> "none", status |-> 0, body |-> [none |-> TRUE]]

Req(route, header, body) == [route |-> route, header |-> header, body |-> body]

Resp(route, status, body) == [route |-> route, status |-> status, body |-> body]

\* no token was issued yet
NoToken == [iat |-> 0, exp |-> 0, issued |-> 0]

NoPresented == [issued |-> 0, at |-> 0]

\* the failed attempts that the items at positions 1..j of q can still
\* take before each of them is dropped
RECURSIVE Phi(_, _)
Phi(q, j) ==
    IF j = 0 THEN 0 ELSE (MAX_RETRIES - q[j].retries) + Phi(q, j - 1)

RECURSIVE SumFails(_)
SumFails(a) == IF a = <<>> THEN 0 ELSE Head(a).fail + SumFails(Tail(a))

\* ------------------------------------------------------------------------
\* Initial state
\* ------------------------------------------------------------------------
Init ==
    /\ queue = <<>>
    /\ processedEvents = <<>>
    /\ pc = "idle"
    /\ index = 0
    /\ len = 0
    /\ request = NoRequest
    /\ response = NoResponse
    /\ nextId = 0
    /\ recorded = <<>>
    /\ attempts = <<>>
    /\ due = <<>>
    /\ passStart = <<>>
    /\ visited = <<>>
    /\ inflight = <<>>
    /\ now = StartTime
    /\ token = NoToken
    /\ presented = NoPresented

\* ------------------------------------------------------------------------
\* POST /webhook
\* ------------------------------------------------------------------------
\* the body fails the schema: the framework answers, the handler never runs
WebhookInvalid(header, body) ==
    /\ pc = "idle"
    /\ WebhookRoute(header, body) = "invalid"
    /\ request' = Req("POST /webhook", header, body)
    /\ response' = Resp("POST /webhook", 400, [type |-> "validation"])
    /\ UNCHANGED <<queue, processedEvents, pc, index, len,
                   nextId, recorded, attempts, due, passStart, visited>>

\* set.status = 401; return { error: "Invalid signature" }
WebhookUnauthorized(header, body) ==
    /\ pc = "idle"
    /\ WebhookRoute(header, body) = "unauthorized"
    /\ request' = Req("POST /webhook", header, body)
    /\ response' = Resp("POST /webhook", 401, [error |-> "Invalid signature"])
    /\ UNCHANGED <<queue, processedEvents, pc, index, len,
                   nextId, recorded, attempts, due, passStart, visited>>

\* mutant: processQueue() is entered before queue.push, so forEach reads the
\* length of the queue without the new item
WebhookAdmit_PassBeforePush(header, body, maxAdmit) ==
    /\ pc = "idle"
    /\ WebhookRoute(header, body) = "admit"
    /\ nextId < maxAdmit
    /\ request' = Req("POST /webhook", header, body)
    /\ nextId' = nextId + 1
    /\ queue' = Push(queue, Item(nextId + 1, body.event))
    /\ attempts' = Append(attempts, [ok |-> 0, fail |-> 0])
    /\ due' = Append(due, Phi(queue', Len(queue')))
    /\ pc' = "pass"
    /\ index' = 0
    /\ len' = Len(queue)
    /\ passStart' = queue'
    /\ visited' = <<>>
    /\ response' = NoResponse
    /\ UNCHANGED <<processedEvents, recorded>>

\* mutant: the handler is called while another handler's pass is running
WebhookAdmit_Reentrant(header, body, maxAdmit) ==
    /\ WebhookRoute(header, body) = "admit"
    /\ nextId < maxAdmit
    /\ request' = Req("POST /webhook", header, body)
    /\ nextId' = nextId + 1
    /\ queue' = Push(queue, Item(nextId + 1, body.event))
    /\ attempts' = Append(attempts, [ok |-> 0, fail |-> 0])
    /\ due' = Append(due, Phi(queue', Len(queue')))
    /\ pc' = "pass"
    /\ index' = 0
    /\ len' = Len(queue')
    /\ passStart' = queue'
    /\ visited' = <<>>
    /\ response' = NoResponse
    /\ UNCHANGED <<processedEvents, recorded>>

\* queue.push({payload: body, retries: 0, addedAt: Date.now()}) and the
\* entry into processQueue(): forEach reads the length once and starts at 0
WebhookAdmit(header, body, maxAdmit) ==
    /\ pc = "idle"
    /\ WebhookRoute(header, body) = "admit"
    /\ nextId < maxAdmit
    /\ request' = Req("POST /webhook", header, body)
    /\ nextId' = nextId + 1
    /\ queue' = Push(queue, Item(nextId + 1, body.event))
    /\ attempts' = Append(attempts, [ok |-> 0, fail |-> 0])
    /\ due' = Append(due, Phi(queue', Len(queue')))
    /\ pc' = "pass"
    /\ index' = 0
    /\ len' = Len(queue')
    /\ passStart' = queue'
    /\ visited' = <<>>
    /\ response' = NoResponse
    /\ UNCHANGED <<processedEvents, recorded>>

\* ------------------------------------------------------------------------
\* processQueue: one step per index of queue.forEach((item, index) => ...)
\* ------------------------------------------------------------------------
\* index is in the array and the try block runs to its end
VisitSuccess ==
    /\ pc = "pass"
    /\ index < len
    /\ index < Len(queue)
    /\ LET item == At(queue, index)
           r == TryBlock(queue, processedEvents, index)
       IN  /\ queue' = r.queue
           /\ processedEvents' = r.processedEvents
           /\ recorded' = Append(recorded, Entry(item, "success"))
           /\ attempts' = [attempts EXCEPT ![item.id].ok = @ + 1]
           /\ visited' = Append(visited, item.id)
    /\ index' = index + 1
    /\ UNCHANGED <<pc, len, request, response, nextId, due, passStart>>
    /\ UNCHANGED aux

\* index is in the array and the delivery throws: the catch block runs
VisitFailure(maxFail) ==
    /\ pc = "pass"
    /\ index < len
    /\ index < Len(queue)
    /\ SumFails(attempts) < maxFail
    /\ LET item == At(queue, index)
           r == CatchBlock(queue, processedEvents, index)
       IN  /\ queue' = r.queue
           /\ processedEvents' = r.processedEvents
           /\ recorded' = IF ShouldDrop(item.retries + 1)
                          THEN Append(recorded,
                                      Entry([item EXCEPT !.retries = @ + 1], "failed"))
                          ELSE recorded
           /\ attempts' = [attempts EXCEPT ![item.id].fail = @ + 1]
           /\ visited' = Append(visited, item.id)
    /\ index' = index + 1
    /\ UNCHANGED <<pc, len, request, response, nextId, due, passStart>>
    /\ UNCHANGED aux

\* index is no longer in the array (earlier splices shortened it): forEach
\* does not call the callback for it
VisitAbsent ==
    /\ pc = "pass"
    /\ index < len
    /\ index >= Len(queue)
    /\ index' = index + 1
    /\ UNCHANGED <<queue, processedEvents, pc, len, request, response,
                   nextId, recorded, attempts, due, passStart, visited>>
    /\ UNCHANGED aux

\* mutant: the handler answers 500 when a delivery of the pass left an
\* item in the queue
WebhookRespond_ReportsFailure ==
    /\ pc = "pass"
    /\ index = len
    /\ pc' = "idle"
    /\ response' = IF queue # <<>>
                   THEN Resp("POST /webhook", 500, [error |-> "Processing failed"])
                   ELSE Resp("POST /webhook", 200,
                             [ok |-> TRUE,
                              message |-> "Webhook received and processed"])
    /\ passStart' = <<>>
    /\ visited' = <<>>
    /\ UNCHANGED <<queue, processedEvents, index, len, request,
                   nextId, recorded, attempts, due>>
    /\ UNCHANGED aux

\* forEach is over; return { ok: true, message: ... }
WebhookRespond ==
    /\ pc = "pass"
    /\ index = len
    /\ pc' = "idle"
    /\ response' = Resp("POST /webhook", 200,
                        [ok |-> TRUE, message |-> "Webhook received and processed"])
    /\ passStart' = <<>>
    /\ visited' = <<>>
    /\ UNCHANGED <<queue, processedEvents, index, len, request,
                   nextId, recorded, attempts, due>>
    /\ UNCHANGED aux

\* ------------------------------------------------------------------------
\* GET /queue-status and GET /health
\* ------------------------------------------------------------------------
RECENT_LIMIT == 10

QueueItems(q) == [i \in 1..Len(q) |-> [event |-> q[i].event, retries |-> q[i].retries]]

\* mutant: queueLength and processedCount read from the other array
QueueStatusBody_Swapped(q, h) ==
    [queueLength |-> Len(h),
     processedCount |-> Len(q),
     maxRetries |-> MAX_RETRIES,
     items |-> QueueItems(q),
     recentEvents |-> Slice(h, RECENT_LIMIT)]

QueueStatusBody(q, h) ==
    [queueLength |-> Len(q),
     processedCount |-> Len(h),
     maxRetries |-> MAX_RETRIES,
     items |-> QueueItems(q),
     recentEvents |-> Slice(h, RECENT_LIMIT)]

HealthBody(q, h) ==
    [status |-> "ok", queue |-> [length |-> Len(q), processed |-> Len(h)]]

\* mutant: the status read runs a pass over the queue
QueueStatus_RunsPass ==
    /\ pc = "idle"
    /\ request' = Req("GET /queue-status", NoHeader, NoBody)
    /\ response' = NoResponse
    /\ pc' = "pass"
    /\ index' = 0
    /\ len' = Len(queue)
    /\ passStart' = queue
    /\ visited' = <<>>
    /\ UNCHANGED <<queue, processedEvents, nextId, recorded, attempts, due>>
    /\ UNCHANGED aux

QueueStatus ==
    /\ pc = "idle"
    /\ request' = Req("GET /queue-status", NoHeader, NoBody)
    /\ response' = Resp("GET /queue-status", 200,
                        QueueStatusBody(queue, processedEvents))
    /\ UNCHANGED <<queue, processedEvents, pc, index, len,
                   nextId, recorded, attempts, due, passStart, visited>>
    /\ UNCHANGED aux

Health ==
    /\ pc = "idle"
    /\ request' = Req("GET /health", NoHeader, NoBody)
    /\ response' = Resp("GET /health", 200, HealthBody(queue, processedEvents))
    /\ UNCHANGED <<queue, processedEvents, pc, index, len,
                   nextId, recorded, attempts, due, passStart, visited>>
    /\ UNCHANGED aux

\* ------------------------------------------------------------------------
\* Requests in flight
\* ------------------------------------------------------------------------
\* s without its i-th element
RemoveAt(s, i) == SubSeq(s, 1, i - 1) \o SubSeq(s, i + 1, Len(s))

\* a request reaches the server, at any moment: it waits (its body is read
\* and parsed) until the thread is free to call its handler.  arrival is a
\* history field: the pass that was running when the request came, or 0
Receive(header, body, maxAdmit) ==
    /\ Len(inflight) < MaxInflight
    /\ nextId + Len(inflight) < maxAdmit
    /\ inflight' = Append(inflight,
                          [header |-> header, body |-> body,
                           arrival |-> IF pc = "pass" THEN nextId ELSE 0])
    /\ UNCHANGED <<queue, processedEvents, pc, index, len, request, response,
                   nextId, recorded, attempts, due, passStart, visited,
                   now, token, presented>>

\* the handler of the i-th request in flight is called; requests are taken
\* in any order
HandleInflight(i, maxAdmit) ==
    /\ WebhookAdmit(inflight[i].header, inflight[i].body, maxAdmit)
    /\ inflight' = RemoveAt(inflight, i)
    /\ UNCHANGED <<now, token, presented>>

\* ------------------------------------------------------------------------
\* GET /generate-test-token and the clock
\* ------------------------------------------------------------------------
\* Date.now(): milliseconds
DateNow == now * MsPerSecond

\* jwt.sign(payload, SECRET, {expiresIn: "1h"}): the library takes the iat of
\* the payload when it has one (payloadIat # 0), else the clock in seconds,
\* and sets exp to that timestamp plus the span, both read as seconds
jwtSign(payloadIat, clockMs) ==
    LET timestamp == IF payloadIat # 0 THEN payloadIat
                     ELSE clockMs \div MsPerSecond
    IN  [iat |-> timestamp, exp |-> timestamp + HourSeconds]

\* jwt.verify(token, SECRET) of a token signed with SECRET: it throws
\* TokenExpiredError when the clock, in seconds, has reached exp
jwtVerifyAt(tok, clockMs) == ~((clockMs \div MsPerSecond) >= tok.exp)

\* the x-signature header a client sends with tok, as jwt.verify takes it
SignatureAt(tok, clockMs) ==
    IF jwtVerifyAt(tok, clockMs) THEN "valid" ELSE "expired"

\* time passes while no handler runs
Tick ==
    /\ pc = "idle"
    /\ now < StartTime + MaxTicks * TickSeconds
    /\ now' = now + TickSeconds
    /\ UNCHANGED <<queue, processedEvents, pc, index, len, request, response,
                   nextId, recorded, attempts, due, passStart, visited,
                   inflight, token, presented>>

\* jwt.sign({test: true, iat: Date.now()}, SECRET, {expiresIn: "1h"})
GenerateTestToken ==
    /\ pc = "idle"
    /\ LET signed == jwtSign(DateNow, DateNow)
       IN  /\ token' = [iat |-> signed.iat, exp |-> signed.exp, issued |-> now]
           /\ response' = Resp("GET /generate-test-token", 200,
                               [token |-> signed])
    /\ request' = Req("GET /generate-test-token", NoHeader, NoBody)
    /\ UNCHANGED <<queue, processedEvents, pc, index, len,
                   nextId, recorded, attempts, due, passStart, visited,
                   inflight, now, presented>>

\* a client posts a webhook with the token it was given last
PresentToken(body, maxAdmit) ==
    /\ token # NoToken
    /\ LET header == SignatureAt(token, DateNow)
       IN  IF validateSignature(header)
           THEN WebhookAdmit(header, body, maxAdmit)
           ELSE WebhookUnauthorized(header, body)
    /\ presented' = [issued |-> token.issued, at |-> now]
    /\ UNCHANGED <<inflight, now, token>>

\* ------------------------------------------------------------------------
\* Specifications
\* ------------------------------------------------------------------------
\* every delivery free to succeed or fail
Next ==
    \/ \E header \in Headers, body \in Bodies : WebhookInvalid(header, body) /\ UNCHANGED aux
    \/ \E header \in Headers, body \in Bodies : WebhookUnauthorized(header, body) /\ UNCHANGED aux
    \/ \E header \in Headers, body \in Bodies : WebhookAdmit(header, body, MaxAdmit) /\ UNCHANGED aux
    \/ VisitSuccess
    \/ VisitFailure(MaxAdmit * MAX_RETRIES)
    \/ VisitAbsent
    \/ WebhookRespond
    \/ QueueStatus
    \/ Health

Spec == Init /\ [][Next]_vars

\* the code as written: the try block never throws, every delivery succeeds
NextRef ==
    \/ \E header \in Headers, body \in Bodies : WebhookInvalid(header, body) /\ UNCHANGED aux
    \/ \E header \in Headers, body \in Bodies : WebhookUnauthorized(header, body) /\ UNCHANGED aux
    \/ \E header \in Headers, body \in Bodies : WebhookAdmit(header, body, MaxAdmit) /\ UNCHANGED aux
    \/ VisitSuccess
    \/ WebhookRespond
    \/ QueueStatus
    \/ Health

SpecRef == Init /\ [][NextRef]_vars

\* long runs, which fill the history: verified webhooks of one event type,
\* and at most MaxFailLong failed deliveries
LongBodies == [event : LongEvents, hasData : {TRUE}]

NextLong ==
    \/ \E body \in LongBodies : WebhookAdmit("valid", body, MaxAdmitLong) /\ UNCHANGED aux
    \/ VisitSuccess
    \/ VisitFailure(MaxFailLong)
    \/ VisitAbsent
    \/ WebhookRespond
    \/ QueueStatus
    \/ Health

SpecLong == Init /\ [][NextLong]_vars

\* a backlog builds up: verified webhooks of one event type, deliveries
\* free to fail, no status reads
NextBacklog ==
    \/ \E body \in LongBodies :
          WebhookAdmit("valid", body, MaxAdmitBacklog) /\ UNCHANGED aux
    \/ VisitSuccess
    \/ VisitFailure(MaxFailBacklog)
    \/ VisitAbsent
    \/ WebhookRespond

SpecBacklog == Init /\ [][NextBacklog]_vars

\* verified webhooks in flight concurrently, handlers called in any order
NextConc ==
    \/ \E body \in [event : Events, hasData : {TRUE}] :
          Receive("valid", body, MaxAdmitConc)
    \/ \E i \in 1..Len(inflight) : HandleInflight(i, MaxAdmitConc)
    \/ VisitSuccess
    \/ VisitFailure(MaxAdmitConc * MAX_RETRIES)
    \/ VisitAbsent
    \/ WebhookRespond

SpecConc == Init /\ [][NextConc]_vars

\* test tokens issued and presented as time passes; deliveries succeed
NextToken ==
    \/ Tick
    \/ GenerateTestToken
    \/ \E body \in LongBodies : PresentToken(body, MaxAdmitToken)
    \/ VisitSuccess
    \/ WebhookRespond

SpecToken == Init /\ [][NextToken]_vars

\* ------------------------------------------------------------------------
\* Observations used by the properties
\* ------------------------------------------------------------------------
Ids == 1..nextId

InQueue(id) == \E i \in 1..Len(queue) : queue[i].id = id

PositionsOf(q, id) == {i \in 1..Len(q) : q[i].id = id}

\* outcomes written for an item so far, evicted ones included
OutcomesOf(id) == {i \in 1..Len(recorded) : recorded[i].id = id}

\* entries the history holds for an item
HistoryOf(id) == {i \in 1..Len(processedEvents) : processedEvents[i].id = id}

\* times an item was attempted in the running pass
VisitsOf(id) == {i \in 1..Len(visited) : visited[i] = id}

\* every admission runs one pass: passes completed since id was admitted,
\* the pass of its own request included
PassesSince(id) == (nextId - id) + (IF pc = "idle" THEN 1 ELSE 0)

PassOver == pc = "pass" /\ index = len

\* ------------------------------------------------------------------------
\* C1
\* ------------------------------------------------------------------------
\* C1: the history never holds more than 20 entries, outcomes recorded as
\* 'failed' included, and the processedCount that /queue-status and /health
\* report is at most 20.
C1_HistoryAtMost20 ==
    /\ Len(processedEvents) <= HISTORY_LIMIT
    /\ response.route = "GET /queue-status"
         => response.body.processedCount <= HISTORY_LIMIT
    /\ response.route = "GET /health"
         => response.body.queue.processed <= HISTORY_LIMIT

\* ------------------------------------------------------------------------
\* C2
\* ------------------------------------------------------------------------
\* C2: when a pass is over, every item that was in the queue when the pass
\* started has been attempted exactly once in it.
C2_PassAttemptsEachOnce ==
    PassOver =>
        \A i \in 1..Len(passStart) : Cardinality(VisitsOf(passStart[i].id)) = 1

\* ------------------------------------------------------------------------
\* C3
\* ------------------------------------------------------------------------
\* C3: every admitted event gets exactly one terminal outcome: never two,
\* an event is out of the queue exactly when its outcome is written, and
\* the outcome is written after enough passes.  "Enough" is due[id], the
\* retries that the items up to and including it could still take when it
\* was admitted (at most MAX_RETRIES times its position): every pass that
\* leaves an item in the queue lowers that number for it.
C3_ExactlyOneOutcome ==
    \A id \in Ids :
        /\ Cardinality(OutcomesOf(id)) <= 1
        /\ InQueue(id) <=> OutcomesOf(id) = {}
        /\ PassesSince(id) >= due[id] => Cardinality(OutcomesOf(id)) = 1
        /\ due[id] <= MAX_RETRIES * Cardinality(Ids)
        /\ PassOver =>
              \A i \in PositionsOf(passStart, id) :
                  \A j \in PositionsOf(queue, id) :
                      /\ Phi(queue, j) < Phi(passStart, i)
                      /\ Phi(queue, j) >= 1

\* an item dropped at its third pass, and an item admitted behind another
\* one that has its outcome as well
C3_Witness ==
    /\ pc = "idle"
    /\ \E a, b \in Ids :
          /\ attempts[a] = [ok |-> 0, fail |-> 3]
          /\ PassesSince(a) >= due[a]
          /\ due[b] > MAX_RETRIES
          /\ attempts[b].fail >= 1
          /\ Cardinality(OutcomesOf(b)) = 1

\* ------------------------------------------------------------------------
\* C4
\* ------------------------------------------------------------------------
AllFail == [k \in 1..1 |-> "fail"]

\* C4: an item whose every attempt fails is attempted exactly MAX_RETRIES
\* times: it is in the queue, with no outcome, after the 1st and the 2nd
\* failure; the 3rd failure removes it and records it once, as 'failed', at
\* the front of the history; there is no 4th attempt.  Admitted to an empty
\* queue it is attempted in each of the next 3 passes.  Three calls of
\* processQueue on a queue that holds one such item leave the queue empty
\* and one 'failed' entry in the history.
C4_AlwaysFailingItem ==
    /\ \A id \in Ids :
          attempts[id].ok = 0 =>
              /\ attempts[id].fail <= MAX_RETRIES
              /\ attempts[id].fail < MAX_RETRIES =>
                    /\ OutcomesOf(id) = {}
                    /\ \E i \in 1..Len(queue) :
                          /\ queue[i].id = id
                          /\ queue[i].retries = attempts[id].fail
              /\ attempts[id].fail = MAX_RETRIES =>
                    /\ ~InQueue(id)
                    /\ Cardinality(OutcomesOf(id)) = 1
                    /\ \A i \in OutcomesOf(id) : recorded[i].status = "failed"
                    /\ recorded[Len(recorded)].id = id =>
                          /\ HistoryOf(id) = {1}
                          /\ processedEvents[1].status = "failed"
              /\ (due[id] = MAX_RETRIES /\ PassesSince(id) >= MAX_RETRIES)
                    => attempts[id].fail = MAX_RETRIES
    /\ \A e \in Events :
          LET p1 == processQueue(<<Item(1, e)>>, <<>>, AllFail)
              p2 == processQueue(p1.queue, p1.processedEvents, AllFail)
              p3 == processQueue(p2.queue, p2.processedEvents, AllFail)
          IN  /\ p1 = [queue |-> <<[Item(1, e) EXCEPT !.retries = 1]>>,
                       processedEvents |-> <<>>]
              /\ p2 = [queue |-> <<[Item(1, e) EXCEPT !.retries = 2]>>,
                       processedEvents |-> <<>>]
              /\ p3 = [queue |-> <<>>,
                       processedEvents |->
                           <<[id |-> 1, event |-> e, status |-> "failed"]>>]

\* an item has just been dropped by its third failure, three passes after
\* it was admitted to an empty queue
C4_Witness ==
    /\ pc = "idle"
    /\ \E id \in Ids :
          /\ attempts[id] = [ok |-> 0, fail |-> 3]
          /\ due[id] = MAX_RETRIES
          /\ PassesSince(id) = MAX_RETRIES
          /\ recorded[Len(recorded)].id = id
          /\ processedEvents[1] = recorded[Len(recorded)]

\* ------------------------------------------------------------------------
\* C5
\* ------------------------------------------------------------------------
\* C5: an item delivered at attempt N (N - 1 failures before), N <
\* MAX_RETRIES, has one outcome, 'success', is out of the queue from that
\* attempt on, and is not attempted again.
C5_SucceedsOnNthAttempt ==
    /\ [](\A id \in Ids :
            (attempts[id].ok >= 1 /\ attempts[id].fail + 1 < MAX_RETRIES) =>
                /\ attempts[id].ok = 1
                /\ ~InQueue(id)
                /\ Cardinality(OutcomesOf(id)) = 1
                /\ \A i \in OutcomesOf(id) : recorded[i].status = "success")
    /\ [][\A id \in Ids :
            (attempts[id].ok >= 1 /\ attempts[id].fail + 1 < MAX_RETRIES) =>
                attempts'[id] = attempts[id]]_vars

\* an item delivered at its second attempt, and passes made after that
C5_Witness ==
    /\ pc = "idle"
    /\ \E id \in Ids :
          /\ attempts[id] = [ok |-> 1, fail |-> 1]
          /\ PassesSince(id) >= 4
          /\ queue # <<>>

\* ------------------------------------------------------------------------
\* C6
\* ------------------------------------------------------------------------
\* the x-signature header is missing, empty, or fails verification
BadSignature(header) ==
    \/ header = NoHeader
    \/ header = ""
    \/ ~jwtVerify(header)

\* the step serves a POST /webhook
ServesWebhook == pc = "idle" /\ request'.route = "POST /webhook"

Answer401 == Resp("POST /webhook", 401, [error |-> "Invalid signature"])

Answer400 == Resp("POST /webhook", 400, [type |-> "validation"])

Answer200 ==
    Resp("POST /webhook", 200,
         [ok |-> TRUE, message |-> "Webhook received and processed"])

\* nothing is enqueued, no pass runs, queue and history stay as they were
NothingAdmitted ==
    /\ queue' = queue
    /\ processedEvents' = processedEvents
    /\ pc' = "idle"
    /\ nextId' = nextId
    /\ recorded' = recorded
    /\ attempts' = attempts

\* C6 as stated: a POST /webhook whose x-signature is missing, empty or
\* fails verification is answered 401 {error: "Invalid signature"}, and
\* nothing is enqueued, no pass runs, queue and history are unchanged.
C6_BadSignatureAnswered401 ==
    [][(ServesWebhook /\ BadSignature(request'.header))
          => (response' = Answer401 /\ NothingAdmitted)]_vars

\* C6, amended: a POST /webhook whose body satisfies the schema and whose
\* x-signature is missing, empty or fails verification is answered 401
\* {error: "Invalid signature"}, and nothing is enqueued, no pass runs,
\* queue and history are unchanged.
C6_ValidBodyBadSignature401 ==
    [][(ServesWebhook /\ BodyValid(request'.body) /\ BadSignature(request'.header))
          => (response' = Answer401 /\ NothingAdmitted)]_vars

\* a request with a token that fails verification was answered 401 while
\* the queue and the history hold entries
C6_Witness ==
    /\ pc = "idle"
    /\ request.route = "POST /webhook"
    /\ BodyValid(request.body)
    /\ request.header = "garbage"
    /\ response = Answer401
    /\ queue # <<>>
    /\ processedEvents # <<>>

AllSuccess == \A i \in 1..Len(recorded) : recorded[i].status = "success"

\* C8: after k outcomes, all of them successes, the history is the
\* min(k, 20) most recent outcomes, newest first.
C8_NewestFirstWindow ==
    AllSuccess =>
        LET k == Len(recorded)
            n == IF k < HISTORY_LIMIT THEN k ELSE HISTORY_LIMIT
        IN  /\ Len(processedEvents) = n
            /\ \A i \in 1..n : processedEvents[i] = recorded[k - i + 1]

\* 25 successes: the history holds 20 entries and none of the 5 oldest
C8_Witness ==
    /\ AllSuccess
    /\ Len(recorded) = 25
    /\ Len(processedEvents) = 20
    /\ \A i \in 1..5 : HistoryOf(recorded[i].id) = {}
    /\ processedEvents[20] = recorded[6]
    /\ processedEvents[1] = recorded[25]

\* ------------------------------------------------------------------------
\* C9
\* ------------------------------------------------------------------------
\* C9: a POST /webhook that passes the schema and the signature check is
\* answered 200 {ok: true} whatever the deliveries of its pass did; no
\* /webhook response reports a delivery failure; a drop is written to the
\* history as a 'failed' entry.
C9_AdmittedAnswered200 ==
    /\ (/\ pc = "idle"
        /\ request.route = "POST /webhook"
        /\ BodyValid(request.body)
        /\ ~BadSignature(request.header)) => response = Answer200
    /\ response.route = "POST /webhook"
          => response \in {Answer200, Answer401, Answer400}
    /\ \A id \in Ids :
          attempts[id].fail >= MAX_RETRIES =>
              \E i \in OutcomesOf(id) : recorded[i].status = "failed"
    /\ recorded # <<>> => processedEvents[1] = recorded[Len(recorded)]

\* the pass of the request just answered 200 dropped an item (its third
\* failure; its first was two requests earlier) and failed on another
C9_Witness ==
    /\ pc = "idle"
    /\ response = Answer200
    /\ nextId >= 3
    /\ attempts[nextId - 2] = [ok |-> 0, fail |-> 3]
    /\ attempts[nextId].fail = 1
    /\ processedEvents[1].status = "failed"

\* ------------------------------------------------------------------------
\* C10
\* ------------------------------------------------------------------------
\* C10: when every delivery succeeds, the queue is empty whenever no
\* handler runs, every admitted event is processed by the pass of its own
\* request, and right after that request the newest history entry is that
\* event with status 'success'.
C10_ReferenceQueueEmpty ==
    /\ pc = "idle" => queue = <<>>
    /\ pc = "idle" =>
          \A id \in Ids : attempts[id] = [ok |-> 1, fail |-> 0]
    /\ PassOver => visited = <<nextId>>
    /\ (pc = "idle" /\ response = Answer200) =>
          /\ processedEvents # <<>>
          /\ processedEvents[1] =
                [id |-> nextId, event |-> request.body.event, status |-> "success"]

\* the third webhook was just answered; the last two events differ
C10_Witness ==
    /\ pc = "idle"
    /\ response = Answer200
    /\ nextId >= 3
    /\ request.body.event = "order.completed"
    /\ processedEvents[1].event = "order.completed"
    /\ processedEvents[2].event = "user.created"

\* ------------------------------------------------------------------------
\* C11
\* ------------------------------------------------------------------------
\* the step admits a webhook
Admits == nextId' = nextId + 1

\* C11: an admission is followed, in the same handler turn and before the
\* response, by exactly one pass over the queue that already holds the new
\* item: the step that admits enters forEach at index 0 with the length of
\* the queue after the push; until the response the handler only advances
\* that one forEach, index by index; the response is returned when the
\* index has reached that length, and nowhere else.
C11_OnePassPerAdmission ==
    /\ [][Admits =>
            /\ pc = "idle" /\ pc' = "pass"
            /\ index' = 0
            /\ len' = Len(queue')
            /\ len' >= 1
            /\ queue'[len'].id = nextId'
            /\ response' = NoResponse]_vars
    /\ [][(pc = "pass" /\ pc' = "pass") =>
            /\ index < len
            /\ index' = index + 1
            /\ len' = len
            /\ nextId' = nextId
            /\ response' = NoResponse]_vars
    /\ [][(pc = "pass" /\ pc' = "idle") =>
            /\ index = len
            /\ response' = Answer200
            /\ queue' = queue
            /\ processedEvents' = processedEvents
            /\ nextId' = nextId]_vars
    /\ [][(pc = "idle" /\ pc' = "idle") =>
            /\ queue' = queue
            /\ processedEvents' = processedEvents
            /\ nextId' = nextId]_vars

\* the pass of the third admission is over, the response not yet returned;
\* the pass started with three items, the new one last
C11_Witness ==
    /\ PassOver
    /\ response = NoResponse
    /\ len = 3
    /\ passStart[3].id = nextId
    /\ Len(visited) >= 2

\* ------------------------------------------------------------------------
\* C13
\* ------------------------------------------------------------------------
\* the step serves a GET /queue-status or a GET /health
ServesStatus ==
    pc = "idle" /\ request'.route \in {"GET /queue-status", "GET /health"}

\* C13: GET /queue-status and GET /health leave the queue and the history
\* as they are, and what they report is the state: queueLength and
\* queue.length the number of queued items, processedCount and
\* queue.processed the length of the history, items the event and retries
\* of every queued item in queue order.
C13_StatusReadsOnly ==
    /\ [][ServesStatus =>
            /\ queue' = queue
            /\ processedEvents' = processedEvents
            /\ pc' = "idle"
            /\ nextId' = nextId
            /\ response'.route = request'.route
            /\ response'.status = 200]_vars
    /\ [](response.route = "GET /queue-status" =>
            /\ response.body.queueLength = Len(queue)
            /\ response.body.processedCount = Len(processedEvents)
            /\ response.body.maxRetries = MAX_RETRIES
            /\ Len(response.body.items) = Len(queue)
            /\ \A i \in 1..Len(queue) :
                  /\ response.body.items[i].event = queue[i].event
                  /\ response.body.items[i].retries = queue[i].retries)
    /\ [](response.route = "GET /health" =>
            /\ response.body.status = "ok"
            /\ response.body.queue.length = Len(queue)
            /\ response.body.queue.processed = Len(processedEvents))

\* /queue-status answered with two queued items of different retries and
\* one outcome in the history
C13_Witness ==
    /\ response.route = "GET /queue-status"
    /\ Len(queue) = 2
    /\ queue[1].retries = 2
    /\ queue[2].retries = 1
    /\ queue[1].event # queue[2].event
    /\ Len(processedEvents) = 1

\* ------------------------------------------------------------------------
\* C14
\* ------------------------------------------------------------------------
\* C14: recentEvents of /queue-status holds at most 10 entries and is the
\* first min(10, length) entries of the history, which are the outcomes
\* written last, newest first.
C14_RecentEvents ==
    response.route = "GET /queue-status" =>
        LET r == response.body.recentEvents
            n == IF Len(processedEvents) < RECENT_LIMIT
                 THEN Len(processedEvents) ELSE RECENT_LIMIT
            k == Len(recorded)
        IN  /\ Len(r) <= 10
            /\ Len(r) = n
            /\ \A i \in 1..n :
                  /\ r[i] = processedEvents[i]
                  /\ r[i] = recorded[k - i + 1]

\* /queue-status answered with a history of 12 entries or more that holds
\* a 'failed' entry among its 10 newest
C14_Witness ==
    /\ response.route = "GET /queue-status"
    /\ Len(processedEvents) >= 12
    /\ Len(response.body.recentEvents) = 10
    /\ \E i \in 2..10 : response.body.recentEvents[i].status = "failed"

\* ------------------------------------------------------------------------
\* C15
\* ------------------------------------------------------------------------
QueueIds == {queue[i].id : i \in 1..Len(queue)}

\* C15: at every point of a pass the queue holds no item twice and holds
\* every item of the pass that has not been visited yet.  (Inside one
\* callback the queue is changed by one splice only, and an item by its
\* retries++, so the queue between two statements of a callback holds the
\* items it holds before or after the step.)
C15_MidPassQueue ==
    pc = "pass" =>
        /\ Cardinality(QueueIds) = Len(queue)
        /\ \A i \in 1..Len(passStart) :
              VisitsOf(passStart[i].id) = {} => InQueue(passStart[i].id)
        /\ QueueIds \subseteq {passStart[i].id : i \in 1..Len(passStart)}

\* mid-pass: one item was removed, one was visited and stays, and one is
\* not visited yet
C15_Witness ==
    /\ pc = "pass"
    /\ index < len
    /\ Len(passStart) = 3
    /\ Len(queue) = 2
    /\ Len(visited) = 2
    /\ \E i \in 1..3 : VisitsOf(passStart[i].id) = {}

\* ------------------------------------------------------------------------
\* C16
\* ------------------------------------------------------------------------
\* C16: admitting a verified webhook appends one item with retries 0 at the
\* tail of the queue, which makes it one longer before the pass runs, and
\* leaves the items already queued, their order and retries, and the
\* history as they are.
C16_AdmissionAppends ==
    [][Admits =>
          /\ Len(queue') = Len(queue) + 1
          /\ SubSeq(queue', 1, Len(queue)) = queue
          /\ queue'[Len(queue')] =
                [id |-> nextId', event |-> request'.body.event, retries |-> 0]
          /\ processedEvents' = processedEvents
          /\ BodyValid(request'.body)
          /\ ~BadSignature(request'.header)]_vars

\* a webhook was just admitted behind two queued items, with a history
C16_Witness ==
    /\ pc = "pass"
    /\ index = 0
    /\ Len(queue) = 3
    /\ queue[1].retries = 2
    /\ queue[3].retries = 0
    /\ processedEvents # <<>>

\* ------------------------------------------------------------------------
\* C18
\* ------------------------------------------------------------------------
\* this step makes a delivery attempt on item a and the attempt fails
FailedAttemptOn(a) ==
    /\ a <= Len(attempts)
    /\ attempts'[a].fail = attempts[a].fail + 1

\* C18: a failed attempt that brings the retries of an item to less than
\* MAX_RETRIES adds exactly 1 to its retries, leaves the queue otherwise as
\* it is (same items, same order, same retries of the others) and writes
\* no entry to the history.
C18_FailureBelowThreshold ==
    [][\A a \in Ids :
          (FailedAttemptOn(a) /\ attempts'[a].fail < MAX_RETRIES) =>
              /\ index < Len(queue)
              /\ queue[index + 1].id = a
              /\ queue' = [queue EXCEPT ![index + 1].retries = @ + 1]
              /\ processedEvents' = processedEvents
              /\ recorded' = recorded]_vars

\* a first item has failed twice and stays ahead of a second one, while the
\* history holds an entry
C18_Witness ==
    /\ Len(queue) >= 2
    /\ queue[1].retries = 2
    /\ queue[1].id < queue[2].id
    /\ Len(visited) >= 1
    /\ visited[Len(visited)] = queue[1].id
    /\ processedEvents # <<>>

\* ------------------------------------------------------------------------
\* C19
\* ------------------------------------------------------------------------
\* C19: with no pass running every queued item has 0 <= retries < 3, and so
\* has every item /queue-status reports; the step whose failure brings the
\* retries of an item to 3 also removes the item from the queue.
C19_RetriesBelowThreshold ==
    /\ [](pc = "idle" =>
             \A i \in 1..Len(queue) : queue[i].retries \in 0..(MAX_RETRIES - 1))
    /\ [](response.route = "GET /queue-status" =>
             \A i \in 1..Len(response.body.items) :
                 response.body.items[i].retries \in 0..(MAX_RETRIES - 1))
    /\ [][\A a \in Ids :
             (FailedAttemptOn(a) /\ attempts'[a].fail >= MAX_RETRIES) =>
                 /\ InQueue(a)
                 /\ a \notin {queue'[i].id : i \in 1..Len(queue')}]_vars

\* /queue-status reports an item with 2 retries after another item was
\* dropped at its third failure
C19_Witness ==
    /\ pc = "idle"
    /\ response.route = "GET /queue-status"
    /\ \E i \in 1..Len(response.body.items) : response.body.items[i].retries = 2
    /\ \E a \in Ids : attempts[a].fail = MAX_RETRIES /\ ~InQueue(a)

\* ------------------------------------------------------------------------
\* C20
\* ------------------------------------------------------------------------
RetriesOf(q, a) == q[CHOOSE i \in 1..Len(q) : q[i].id = a].retries

\* C20: the retries of a queued item is the number of failed attempts made
\* on it; it changes only in a step of a pass, by +1, for the item at the
\* index of the pass whose attempt failed.
C20_RetriesCountFailures ==
    /\ [](\A i \in 1..Len(queue) : queue[i].retries = attempts[queue[i].id].fail)
    /\ [][\A a \in QueueIds :
             (a \in {queue'[i].id : i \in 1..Len(queue')}
                 /\ RetriesOf(queue', a) # RetriesOf(queue, a)) =>
                 /\ pc = "pass" /\ pc' = "pass"
                 /\ index < Len(queue)
                 /\ queue[index + 1].id = a
                 /\ RetriesOf(queue', a) = RetriesOf(queue, a) + 1
                 /\ FailedAttemptOn(a)
                 /\ attempts'[a].ok = attempts[a].ok]_vars

\* after a status read: one item failed twice, a later one once, and an
\* item admitted before them was delivered
C20_Witness ==
    /\ response.route = "GET /queue-status"
    /\ Len(queue) >= 2
    /\ queue[1].retries = 2
    /\ queue[2].retries = 1
    /\ \E a \in Ids : attempts[a].ok = 1 /\ a < queue[1].id

\* ------------------------------------------------------------------------
\* C12
\* ------------------------------------------------------------------------
\* C12: with requests in flight, a handler's push and its pass are one
\* atomic step for every other handler.  While a pass runs no webhook is
\* admitted and no other pass starts: a step of a running pass is a visit
\* of that pass, its return, or the arrival of a request which changes
\* nothing of the queue; and the pass sees only items of the queue as it
\* was when the pass started.
C12_PassesDoNotOverlap ==
    /\ [][pc = "pass" =>
             /\ nextId' = nextId
             /\ request' = request
             /\ len' = len
             /\ \/ pc' = "pass" /\ index' = index + 1 /\ passStart' = passStart
                \/ pc' = "idle" /\ index = len /\ queue' = queue
                \/ /\ Len(inflight') = Len(inflight) + 1
                   /\ UNCHANGED <<queue, processedEvents, pc, index, passStart>>]_vars
    /\ [](pc = "pass" =>
             /\ QueueIds \subseteq {passStart[i].id : i \in 1..Len(passStart)}
             /\ \A i \in 1..Len(visited) : visited[i] <= nextId
             /\ \A i \in 1..Len(queue) : queue[i].id <= nextId)

\* a pass is running, it has visited an item and has one more to visit, and
\* two requests wait, one of which arrived during this pass
C12_Witness ==
    /\ pc = "pass"
    /\ index >= 1
    /\ index < len
    /\ Len(inflight) >= 2
    /\ \E i \in 1..Len(inflight) : inflight[i].arrival = nextId

\* ------------------------------------------------------------------------
\* C17
\* ------------------------------------------------------------------------
\* the webhook that presented the token last has its answer
PresentedAnswered ==
    /\ presented # NoPresented
    /\ pc = "idle"
    /\ response.route = "POST /webhook"

\* C17: a token of GET /generate-test-token presented to /webhook up to one
\* hour after it was issued is accepted, and presented later than that it
\* is rejected and the request answered 401.
C17_TokenExpiresAfterOneHour ==
    PresentedAnswered =>
        /\ presented.at - presented.issued <= HourSeconds
              => response.status = 200
        /\ presented.at - presented.issued > HourSeconds
              => response.status = 401

\* ------------------------------------------------------------------------
\* C21
\* ------------------------------------------------------------------------
\* C21: the queue is in admission order (ids are given in the order of
\* admission), whatever was removed from it, and a pass attempts the items
\* it visits in that order.
C21_AdmissionOrder ==
    /\ \A i, j \in 1..Len(queue) : i < j => queue[i].id < queue[j].id
    /\ \A i, j \in 1..Len(visited) : i < j => visited[i] < visited[j]

\* an item was removed from between two items that stay, in a pass that
\* made two attempts
C21_Witness ==
    /\ Len(queue) >= 2
    /\ queue[2].id > queue[1].id + 1
    /\ Len(visited) >= 2
    /\ visited[1] = queue[1].id

\* ------------------------------------------------------------------------
\* C22
\* ------------------------------------------------------------------------
\* C22: a step of a pass that removes an item removes the item at the index
\* of the step and no other, that item's delivery was attempted in the step
\* and its outcome is written in the step; so an item that is no longer in
\* the queue has an outcome.
C22_RemovedItemIsAttemptedItem ==
    /\ [][(pc = "pass" /\ queue' # queue) =>
             /\ index < Len(queue)
             /\ LET item == queue[index + 1]
                IN  /\ visited' = Append(visited, item.id)
                    /\ attempts'[item.id].ok + attempts'[item.id].fail =
                          attempts[item.id].ok + attempts[item.id].fail + 1
                    /\ \/ /\ Len(queue') = Len(queue)
                          /\ \A i \in 1..Len(queue) : queue'[i].id = queue[i].id
                          /\ recorded' = recorded
                       \/ /\ Len(queue') = Len(queue) - 1
                          /\ {queue'[i].id : i \in 1..Len(queue')} =
                                QueueIds \ {item.id}
                          /\ Len(recorded') = Len(recorded) + 1
                          /\ recorded'[Len(recorded')].id = item.id
                          /\ processedEvents'[1].id = item.id]_vars
    /\ [](\A a \in Ids : ~InQueue(a) => OutcomesOf(a) # {})

\* the second removal of a pass, made after the first one shifted the
\* positions: the item between the two stays
C22_Witness ==
    /\ pc = "pass"
    /\ Len(passStart) = 3
    /\ visited = <<passStart[1].id, passStart[3].id>>
    /\ queue = <<passStart[2]>>
    /\ OutcomesOf(passStart[3].id) # {}

\* ------------------------------------------------------------------------
\* C23
\* ------------------------------------------------------------------------
\* C23: with no pass running, the events admitted are the events queued
\* plus the events with an outcome written (entries evicted from the
\* history counted), and no queued event has an outcome.
C23_Conservation ==
    pc = "idle" =>
        /\ nextId = Len(queue) + Len(recorded)
        /\ \A i \in 1..Len(queue) : OutcomesOf(queue[i].id) = {}

\* entries were evicted from the history, an item is pending, an item was
\* dropped
C23_Witness ==
    /\ pc = "idle"
    /\ Len(recorded) > Len(processedEvents)
    /\ queue # <<>>
    /\ \E i \in 1..Len(recorded) : recorded[i].status = "failed"

\* ------------------------------------------------------------------------
\* C24
\* ------------------------------------------------------------------------
\* the elements of s at its odd positions, in order
RECURSIVE OddPositions(_)
OddPositions(s) ==
    IF s = <<>> THEN <<>>
    ELSE <<Head(s)>> \o (IF Len(s) = 1 THEN <<>> ELSE OddPositions(Tail(Tail(s))))

\* the elements of s at its even positions, in order
EvenPositions(s) == IF s = <<>> THEN <<>> ELSE OddPositions(Tail(s))

\* the pass is over and every delivery it attempted succeeded
PassOverAllSucceeded ==
    /\ pc = "pass"
    /\ index = len
    /\ Len(passStart) >= 1
    /\ Len(recorded) >= Len(visited)
    /\ \A i \in 1..Len(visited) :
          LET e == recorded[Len(recorded) - Len(visited) + i]
          IN  e.id = visited[i] /\ e.status = "success"

C25_NoPassWithoutAdmission ==
    [][(pc = "idle" /\ ~Admits) =>
          /\ pc' = "idle"
          /\ queue' = queue
          /\ processedEvents' = processedEvents
          /\ recorded' = recorded
          /\ attempts' = attempts]_vars

\* an item is pending after a failed attempt, and the request served last
\* was a webhook rejected with 401
C25_Witness ==
    /\ pc = "idle"
    /\ queue # <<>>
    /\ queue[1].retries >= 1
    /\ request.route = "POST /webhook"
    /\ response.status = 401

====
